---- MODULE Spec2Model ----
(***************************************************************************)
(* Near-Earth-object query engine: record constructors (models.py), the    *)
(* loaders (extract.py), the filter engine and the result limiter          *)
(* (filters.py), and the NEO database that links and queries them.         *)
(***************************************************************************)
EXTENDS Integers, Sequences, FiniteSets, TLC

VARIABLES
    m_cls, m_info, m_result, m_pc,
    f_opts, f_filters, f_approach, f_neos, f_verdict, f_pc, f_plain,
    l_src, l_n, l_ret, l_cnt, l_pulled, l_held, l_out, l_calls, l_pc,
    d_neo_rows, d_cad_rows, d_neos, d_neos_dict, d_approaches, d_index, d_pc,
    d_key, d_found, q_filters, q_pos, q_out, q_state,
    p_filters, p_out, p_state

modelVars == <<m_cls, m_info, m_result, m_pc>>
filterVars == <<f_opts, f_filters, f_approach, f_neos, f_verdict, f_pc, f_plain>>
limitVars == <<l_src, l_n, l_ret, l_cnt, l_pulled, l_held, l_out, l_calls, l_pc>>
dataVars == <<d_neo_rows, d_cad_rows, d_neos, d_neos_dict, d_approaches, d_index, d_pc>>
lookupVars == <<d_key, d_found>>
queryVars == <<q_filters, q_pos, q_out, q_state>>
\* the filters and the outcome of an earlier query of the same database
earlierVars == <<p_filters, p_out, p_state>>
dbVars == <<dataVars, lookupVars, queryVars, earlierVars>>
vars == <<modelVars, filterVars, limitVars, dbVars>>

(***************************************************************************)
(* Bounds of the model.                                                    *)
(***************************************************************************)
\* floats of the data set are the numbers 0..MaxVal (and not-a-number)
MaxVal == 2
\* calendar days of the data set are 1..MaxDay
MaxDay == 2
\* the sequence handed to limit has at most MaxLen elements
MaxLen == 3
\* the NEO file has at most MaxNeos rows, the approach file at most MaxApproaches
MaxNeos == 2
MaxApproaches == 2
\* at most MaxSpecified of the ten options are given when approaches are tested
MaxSpecified == 2

(***************************************************************************)
(* Python values.  Every value is a record of the same shape so that       *)
(* values of different Python types can be compared: k is the type, n the  *)
(* numeric payload, s the text payload.                                    *)
(***************************************************************************)
NoneV == [k |-> "None", n |-> 0, s |-> ""]
NaN == [k |-> "float", n |-> 0, s |-> "nan"]
Unset == [k |-> "unset", n |-> 0, s |-> ""]
Str(x) == [k |-> "str", n |-> 0, s |-> x]
Float(i) == [k |-> "float", n |-> i, s |-> ""]
PyInt(i) == [k |-> "int", n |-> i, s |-> ""]
Bool(b) == [k |-> "bool", n |-> IF b THEN 1 ELSE 0, s |-> ""]
\* a datetime is its calendar day and its time of day, a date the day alone
DateTime(d, t) == [k |-> "datetime", n |-> d, s |-> t]
Date(d) == [k |-> "date", n |-> d, s |-> ""]

IsNaN(v) == v.k = "float" /\ v.s = "nan"
IsNumber(v) == v.k \in {"float", "int", "bool"}

\* The outcome of evaluating a Python expression: a value, or an exception.
Ok(v) == [exc |-> "", val |-> v]
Raise(e) == [exc |-> e, val |-> NoneV]

\* info[key] of a keyword dictionary.
Subscript(info, key) ==
    IF key \in DOMAIN info THEN Ok(info[key]) ELSE Raise("KeyError")

\* str(x): text is kept, None prints as 'None', a number as its digits.
PyStr(v) ==
    CASE v.k = "str" -> v
      [] v.k = "None" -> Str("None")
      [] OTHER -> Str(IF IsNaN(v) THEN "nan" ELSE ToString(v.n))

\* float(x): a float is kept, a numeric text is parsed, any other text is a
\* ValueError and None is a TypeError.
PyFloat(v) ==
    CASE v.k = "float" -> Ok(v)
      [] v.k \in {"bool", "int"} -> Ok(Float(v.n))
      [] v.k = "str" ->
            IF v.s = "nan" THEN Ok(NaN)
            ELSE IF \E i \in 0..MaxVal : ToString(i) = v.s
                 THEN Ok(Float(CHOOSE i \in 0..MaxVal : ToString(i) = v.s))
                 ELSE Raise("ValueError")
      [] OTHER -> Raise("TypeError")

\* try: <r> except(<caught>): <default>
TryExcept(r, caught, default) ==
    IF r.exc = "" THEN r
    ELSE IF r.exc \in caught THEN Ok(default) ELSE r

\* str(r), float(r), cd_to_datetime(r) of an expression r: its exception propagates.
StrOf(r) == IF r.exc = "" THEN Ok(PyStr(r.val)) ELSE r
FloatOf(r) == IF r.exc = "" THEN PyFloat(r.val) ELSE r

(***************************************************************************)
(* helpers.cd_to_datetime: the compact NASA date-time text to a datetime.  *)
(***************************************************************************)
TimesOfDay == {"00:00", "23:59"}
Days == 1..MaxDay
CdString(d, t) == "2020-Jan-" \o ToString(d) \o " " \o t

cd_to_datetime(v) ==
    IF v.k = "str" /\ \E d \in Days, t \in TimesOfDay : CdString(d, t) = v.s
    THEN LET dt == CHOOSE p \in Days \X TimesOfDay : CdString(p[1], p[2]) = v.s
         IN Ok(DateTime(dt[1], dt[2]))
    ELSE Ok(NoneV)

\* the texts of the raw data: numbers, date-times, and what parses as neither
NumberTexts == {Str(ToString(i)) : i \in 0..MaxVal}
CdTexts == {Str(CdString(d, t)) : d \in Days, t \in TimesOfDay}
BadTexts == {NoneV, Str(""), Str("abc")}

(***************************************************************************)
(* models.py: the two record constructors.  An object is a record of its   *)
(* attributes; Unset is an attribute that was never assigned.              *)
(***************************************************************************)
\* self.approaches = []
\* (mutant: a list that already holds an approach, as one list shared by
\* the NEOs would)
NewApproachListShared == <<1>>
NewApproachList == << >>

\* self.designation = str(info['designation'])
\* (mutant: str(info['name']))
NeoDesignationFromName(info) ==
    TryExcept(StrOf(Subscript(info, "name")), {"KeyError"}, NoneV)
NeoDesignation(info) ==
    TryExcept(StrOf(Subscript(info, "designation")), {"KeyError"}, NoneV)
NeoName(info) ==
    LET r == Subscript(info, "name")
    IN TryExcept(IF r.exc = "" /\ r.val = Str("") THEN Ok(NoneV) ELSE r,
                 {"KeyError"}, NoneV)
NeoDiameter(info) ==
    TryExcept(FloatOf(Subscript(info, "diameter")),
              {"KeyError", "ValueError"}, NaN)
NeoHazardous(info) ==
    LET r == Subscript(info, "hazardous")
    IN TryExcept(IF r.exc = "" THEN Ok(Bool(r.val = Str("Y"))) ELSE r,
                 {"KeyError"}, Bool(FALSE))

\* The first statement that raises ends the constructor.
FirstRaised(rs) ==
    IF \E i \in 1..Len(rs) : rs[i].exc # ""
    THEN rs[CHOOSE i \in 1..Len(rs) :
                rs[i].exc # "" /\ \A j \in 1..(i - 1) : rs[j].exc = ""].exc
    ELSE ""

NearEarthObject(info) ==
    LET d == NeoDesignation(info)
        nm == NeoName(info)
        dm == NeoDiameter(info)
        hz == NeoHazardous(info)
    IN [exc |-> FirstRaised(<<d, nm, dm, hz>>),
        val |-> [designation |-> d.val, name |-> nm.val, diameter |-> dm.val,
                 hazardous |-> hz.val, approaches |-> NewApproachList]]

\* try: self._designation = str(...)  except(KeyError): self.designation = None
ApproachDesignation(info) ==
    StrOf(Subscript(info, "designation"))
ApproachTime(info) ==
    LET r == Subscript(info, "time")
    IN TryExcept(IF r.exc = "" THEN cd_to_datetime(r.val) ELSE r,
                 {"KeyError"}, NoneV)
ApproachDistance(info) ==
    TryExcept(FloatOf(Subscript(info, "distance")), {"KeyError"}, NoneV)
ApproachVelocity(info) ==
    TryExcept(FloatOf(Subscript(info, "velocity")),
              {"KeyError", "TypeError"}, NoneV)

\* neo is the linked NEO's identity, 0 while None.
CloseApproach(info) ==
    LET d == ApproachDesignation(info)
        tm == ApproachTime(info)
        ds == ApproachDistance(info)
        vl == ApproachVelocity(info)
    IN [exc |-> FirstRaised(<<TryExcept(d, {"KeyError"}, NoneV), tm, ds, vl>>),
        val |-> [_designation |-> IF d.exc = "" THEN d.val ELSE Unset,
                 designation |-> IF d.exc = "KeyError" THEN NoneV ELSE Unset,
                 time |-> tm.val, distance |-> ds.val, velocity |-> vl.val,
                 neo |-> 0]]


\* no record is under construction
IdleModels ==
    /\ m_cls = "" /\ m_info = << >> /\ m_result = Ok(NoneV) /\ m_pc = "idle"

\* limit has not been called
IdleLimit ==
    /\ l_src = << >> /\ l_n = NoneV /\ l_ret = [exc |-> "", kind |-> "", stop |-> 0]
    /\ l_cnt = 0 /\ l_pulled = 0 /\ l_held = "" /\ l_out = << >> /\ l_calls = 0
    /\ l_pc = "idle"

\* nothing is loaded
IdleDb ==
    /\ d_neo_rows = << >> /\ d_cad_rows = << >> /\ d_neos = << >>
    /\ d_neos_dict = << >> /\ d_approaches = << >> /\ d_index = << >>
    /\ d_pc = "idle" /\ d_key = NoneV /\ d_found = 0
    /\ q_filters = << >> /\ q_pos = 0 /\ q_out = << >> /\ q_state = "idle"
    /\ p_filters = << >> /\ p_out = << >> /\ p_state = "idle"

(***************************************************************************)
(* filters.py: the comparators of the operator module on Python values.    *)
(***************************************************************************)
operator_eq(a, b) ==
    Ok(Bool(IF IsNumber(a) /\ IsNumber(b)
            THEN ~IsNaN(a) /\ ~IsNaN(b) /\ a.n = b.n
            ELSE a = b))
\* (mutant: a comparison that takes NaN for an ordinary number)
operator_geOrdered(a, b) ==
    IF IsNumber(a) /\ IsNumber(b)
    THEN Ok(Bool(a.n >= b.n))
    ELSE IF a.k = "date" /\ b.k = "date" THEN Ok(Bool(a.n >= b.n))
    ELSE Raise("TypeError")
operator_ge(a, b) ==
    IF IsNumber(a) /\ IsNumber(b)
    THEN Ok(Bool(~IsNaN(a) /\ ~IsNaN(b) /\ a.n >= b.n))
    ELSE IF a.k = "date" /\ b.k = "date" THEN Ok(Bool(a.n >= b.n))
    ELSE Raise("TypeError")
operator_le(a, b) ==
    IF IsNumber(a) /\ IsNumber(b)
    THEN Ok(Bool(~IsNaN(a) /\ ~IsNaN(b) /\ a.n <= b.n))
    ELSE IF a.k = "date" /\ b.k = "date" THEN Ok(Bool(a.n <= b.n))
    ELSE Raise("TypeError")
Apply(op, a, b) ==
    CASE op = "eq" -> operator_eq(a, b)
      [] op = "ge" -> operator_ge(a, b)
      [] op = "le" -> operator_le(a, b)

(***************************************************************************)
(* filters.py: the filter classes.  A filter is its class, its comparator, *)
(* its reference value and (ApproachFilter, NeoFilter) its attribute.      *)
(***************************************************************************)
AttributeFilter(op, value) ==
    [cls |-> "AttributeFilter", op |-> op, value |-> value, attr |-> ""]
DateFilter(op, value) ==
    [cls |-> "DateFilter", op |-> op, value |-> value, attr |-> ""]
ApproachFilter(op, value, attr) ==
    [cls |-> "ApproachFilter", op |-> op, value |-> value, attr |-> attr]
NeoFilter(op, value, attr) ==
    [cls |-> "NeoFilter", op |-> op, value |-> value, attr |-> attr]

\* getattr(obj, attr) of an object: None has no attributes.
GetAttr(obj, attr) ==
    IF attr \in DOMAIN obj /\ obj[attr] # Unset
    THEN Ok(obj[attr]) ELSE Raise("AttributeError")

\* approach.time.date()
\* (mutant: approach.time, the time of day kept)
DateFilterGetNoDate(approach) ==
    IF approach.time.k = "datetime"
    THEN Ok(approach.time) ELSE Raise("AttributeError")
DateFilterGet(approach) ==
    IF approach.time.k = "datetime"
    THEN Ok(Date(approach.time.n)) ELSE Raise("AttributeError")
\* getattr(approach, self.attr)
ApproachFilterGet(f, approach) == GetAttr(approach, f.attr)
\* getattr(approach.neo, self.attr); neos maps a NEO's identity to the object
NeoFilterGet(f, approach, neos) ==
    IF approach.neo = 0 THEN Raise("AttributeError")
    ELSE GetAttr(neos[approach.neo], f.attr)

\* the get of the filter's class; the base class raises
\* (mutant: a base get that returns None instead of raising)
GetReturningNone(f, approach, neos) ==
    CASE f.cls = "DateFilter" -> DateFilterGet(approach)
      [] f.cls = "ApproachFilter" -> ApproachFilterGet(f, approach)
      [] f.cls = "NeoFilter" -> NeoFilterGet(f, approach, neos)
      [] OTHER -> Ok(NoneV)
Get(f, approach, neos) ==
    CASE f.cls = "DateFilter" -> DateFilterGet(approach)
      [] f.cls = "ApproachFilter" -> ApproachFilterGet(f, approach)
      [] f.cls = "NeoFilter" -> NeoFilterGet(f, approach, neos)
      [] OTHER -> Raise("UnsupportedCriterionError")

\* AttributeFilter.__call__: self.op(self.get(approach), self.value)
Call(f, approach, neos) ==
    LET g == Get(f, approach, neos)
    IN IF g.exc # "" THEN g ELSE Apply(f.op, g.val, f.value)

(***************************************************************************)
(* filters.py: create_filters.  The options are a record of the ten        *)
(* keyword arguments, NoneV for an argument left as None.                  *)
(***************************************************************************)
OptionNames ==
    <<"date", "start_date", "end_date", "distance_min", "distance_max",
      "velocity_min", "velocity_max", "diameter_min", "diameter_max",
      "hazardous">>

\* the filter an option appends when it is given
FilterOf(name, value) ==
    CASE name = "date" -> DateFilter("eq", value)
      [] name = "start_date" -> DateFilter("ge", value)
      [] name = "end_date" -> DateFilter("le", value)
      [] name = "distance_min" -> ApproachFilter("ge", value, "distance")
      [] name = "distance_max" -> ApproachFilter("le", value, "distance")
      [] name = "velocity_min" -> ApproachFilter("ge", value, "velocity")
      [] name = "velocity_max" -> ApproachFilter("le", value, "velocity")
      [] name = "diameter_min" -> NeoFilter("ge", value, "diameter")
      [] name = "diameter_max" -> NeoFilter("le", value, "diameter")
      [] name = "hazardous" -> NeoFilter("eq", value, "hazardous")

\* if <option> is not None:
\* (mutant: "if <option>:", the truth value of the option)
IsGivenTruthy(value) == value # NoneV /\ ~(IsNumber(value) /\ value.n = 0)
IsGiven(value) == value # NoneV

RECURSIVE AppendFilters(_, _, _)
AppendFilters(filters, opts, i) ==
    IF i > Len(OptionNames) THEN filters
    ELSE LET name == OptionNames[i]
         IN AppendFilters(IF IsGiven(opts[name])
                          THEN Append(filters, FilterOf(name, opts[name]))
                          ELSE filters,
                          opts, i + 1)

create_filters(opts) == AppendFilters(<< >>, opts, 1)

(***************************************************************************)
(* The conjunction of a collection of filters on one approach, as query    *)
(* evaluates it: in order, stopping at the first filter that is false or   *)
(* that raises.                                                            *)
(***************************************************************************)
RECURSIVE AllFrom(_, _, _, _)
AllFrom(filters, i, approach, neos) ==
    IF i > Len(filters) THEN Ok(Bool(TRUE))
    ELSE LET r == Call(filters[i], approach, neos)
         IN IF r.exc # "" THEN r
            ELSE IF r.val = Bool(FALSE) THEN r
            ELSE AllFrom(filters, i + 1, approach, neos)

Matches(filters, approach, neos) == AllFrom(filters, 1, approach, neos)

(***************************************************************************)
(* Compiling options into filters, and testing one linked approach.        *)
(***************************************************************************)
DateOptions == {NoneV, Date(1), Date(MaxDay)}
NumberOptions == {NoneV, Float(0), Float(MaxVal)}
BoolOptions == {NoneV, Bool(FALSE), Bool(TRUE)}

OptionValues(name) ==
    CASE name \in {"date", "start_date", "end_date"} -> DateOptions
      [] name = "hazardous" -> BoolOptions
      [] OTHER -> NumberOptions

NameSet == {OptionNames[i] : i \in 1..Len(OptionNames)}
AllOptions ==
    [date : DateOptions, start_date : DateOptions, end_date : DateOptions,
     distance_min : NumberOptions, distance_max : NumberOptions,
     velocity_min : NumberOptions, velocity_max : NumberOptions,
     diameter_min : NumberOptions, diameter_max : NumberOptions,
     hazardous : BoolOptions]
NoOptions == [nm \in NameSet |-> NoneV]
Given(opts) == {nm \in NameSet : opts[nm] # NoneV}

\* the options with the names of S given, every choice of their values
OptionsGiving(S) ==
    {[nm \in NameSet |-> IF nm \in S THEN o[nm] ELSE NoneV] :
        o \in {g \in [S -> DateOptions \cup NumberOptions \cup BoolOptions] :
                  \A nm \in S : g[nm] \in OptionValues(nm) \ {NoneV}}}
FewOptions ==
    UNION {OptionsGiving(S) :
              S \in {T \in SUBSET NameSet : Cardinality(T) <= MaxSpecified}}

\* a NEO and an approach of it as the loaders and the linking pass leave them
LoadedNeo(dm, hz) ==
    NearEarthObject([designation |-> Str("433"), name |-> Str("Eros"),
                     diameter |-> dm, hazardous |-> hz]).val
LinkedApproach(tm, ds, vl) ==
    [CloseApproach([designation |-> Str("433"), time |-> tm,
                    distance |-> ds, velocity |-> vl]).val EXCEPT !.neo = 1]

IdleFilters ==
    /\ f_opts = NoOptions /\ f_filters = << >> /\ f_approach = NoneV
    /\ f_neos = << >> /\ f_verdict = Ok(NoneV) /\ f_pc = "idle"
    /\ f_plain = NoneV

InitCreate ==
    /\ IdleModels /\ IdleLimit /\ IdleDb
    /\ f_opts \in AllOptions
    /\ f_filters = << >> /\ f_approach = NoneV /\ f_neos = << >>
    /\ f_verdict = Ok(NoneV) /\ f_pc = "options" /\ f_plain = NoneV

InitFilters ==
    /\ IdleModels /\ IdleLimit /\ IdleDb
    /\ f_opts \in FewOptions
    /\ f_filters = << >>
    /\ f_approach \in {LinkedApproach(tm, ds, vl) :
                          tm \in CdTexts, ds \in NumberTexts, vl \in NumberTexts}
    /\ f_neos \in {<<LoadedNeo(dm, hz)>> :
                      dm \in NumberTexts \cup {Str("")}, hz \in {Str("Y"), Str("N")}}
    /\ f_verdict = Ok(NoneV) /\ f_pc = "options" /\ f_plain = NoneV

CreateFilters ==
    /\ f_pc = "options"
    /\ f_filters' = create_filters(f_opts)
    /\ f_pc' = "created"
    /\ UNCHANGED <<f_opts, f_approach, f_neos, f_verdict, f_plain, modelVars,
                   limitVars, dbVars>>

Evaluate ==
    /\ f_pc = "created" /\ f_approach # NoneV
    /\ f_verdict' = Matches(f_filters, f_approach, f_neos)
    /\ f_pc' = "evaluated"
    /\ UNCHANGED <<f_opts, f_filters, f_approach, f_neos, f_plain, modelVars,
                   limitVars, dbVars>>

NextCreate == CreateFilters
SpecCreate == InitCreate /\ [][NextCreate]_vars

NextFilters == CreateFilters \/ Evaluate
SpecFilters == InitFilters /\ [][NextFilters]_vars

\* the positions of a list that hold the filter the option nm produces
FiltersFor(nm, filters) ==
    {i \in 1..Len(filters) : filters[i] = FilterOf(nm, f_opts[nm])}
\* the positions that hold a filter of the kind of the option nm, any value
FiltersOfKind(nm, filters) ==
    {i \in 1..Len(filters) :
        [filters[i] EXCEPT !.value = NoneV] = FilterOf(nm, NoneV)}

\* C2: create_filters returns exactly one filter for each option that is not
\* None and none for an option left as None; a falsy value that is not None
\* (hazardous=False, a minimum of 0) still produces its filter.
C2_OneFilterPerGivenOption ==
    f_pc = "created" =>
        /\ Len(f_filters) = Cardinality(Given(f_opts))
        /\ \A nm \in NameSet :
              IF f_opts[nm] # NoneV
              THEN /\ Cardinality(FiltersFor(nm, f_filters)) = 1
                   /\ FiltersOfKind(nm, f_filters) = FiltersFor(nm, f_filters)
              ELSE FiltersOfKind(nm, f_filters) = {}

C2_Witness ==
    /\ f_pc = "created"
    /\ f_opts.hazardous = Bool(FALSE) /\ f_opts.distance_min = Float(0)
    /\ f_opts.date = NoneV
    /\ Len(f_filters) = 2

\* what each criterion asks of a linked approach a of the NEO neo
Criterion(nm, v, a, neo) ==
    CASE nm = "date" -> a.time.n = v.n
      [] nm = "start_date" -> a.time.n >= v.n
      [] nm = "end_date" -> a.time.n <= v.n
      [] nm = "distance_min" -> a.distance.n >= v.n
      [] nm = "distance_max" -> a.distance.n <= v.n
      [] nm = "velocity_min" -> a.velocity.n >= v.n
      [] nm = "velocity_max" -> a.velocity.n <= v.n
      [] nm = "diameter_min" -> ~IsNaN(neo.diameter) /\ neo.diameter.n >= v.n
      [] nm = "diameter_max" -> ~IsNaN(neo.diameter) /\ neo.diameter.n <= v.n
      [] nm = "hazardous" -> neo.hazardous = v

\* C3: the filters of create_filters accept a linked approach with all fields
\* present if and only if every given criterion holds of it, the reference
\* value on the right of each comparison.
C3_AcceptsIffCriteriaHold ==
    f_pc = "evaluated" =>
        /\ f_verdict.exc = ""
        /\ (f_verdict.val = Bool(TRUE)) <=>
              \A nm \in Given(f_opts) :
                  Criterion(nm, f_opts[nm], f_approach, f_neos[f_approach.neo])

C3_Witness ==
    /\ f_pc = "evaluated"
    /\ f_opts.date = Date(1) /\ f_approach.time = DateTime(1, "23:59")
    /\ f_opts.diameter_max = Float(0) /\ f_neos[1].diameter = Float(1)
    /\ f_verdict = Ok(Bool(FALSE))

\* the diameter filters among a list of filters
DiameterFilters(filters) ==
    {i \in 1..Len(filters) : filters[i].attr = "diameter"}

\* C13: a linked approach whose NEO has a NaN diameter satisfies neither
\* diameter_min nor diameter_max, whatever the reference value: each such
\* filter returns False without raising, and the conjunction of filters that
\* holds one rejects the approach, so a query does not yield it.
C13_NaNDiameterFailsDiameterFilters ==
    (f_pc = "evaluated" /\ IsNaN(f_neos[f_approach.neo].diameter)) =>
        /\ \A i \in DiameterFilters(f_filters) :
              Call(f_filters[i], f_approach, f_neos) = Ok(Bool(FALSE))
        /\ \A v \in (NumberOptions \ {NoneV}) \cup {NaN} :
              /\ Call(FilterOf("diameter_min", v), f_approach, f_neos)
                    = Ok(Bool(FALSE))
              /\ Call(FilterOf("diameter_max", v), f_approach, f_neos)
                    = Ok(Bool(FALSE))
        /\ DiameterFilters(f_filters) # {} => f_verdict = Ok(Bool(FALSE))

C13_Witness ==
    /\ f_pc = "evaluated" /\ IsNaN(f_neos[f_approach.neo].diameter)
    /\ Given(f_opts) = {"diameter_min"} /\ f_opts.diameter_min = Float(0)
    /\ f_filters = <<NeoFilter("ge", Float(0), "diameter")>>
    /\ f_verdict = Ok(Bool(FALSE))

(***************************************************************************)
(* A filter without an extraction strategy: AttributeFilter(op, value)     *)
(* called on an approach, next to the filters create_filters returns.      *)
(***************************************************************************)
Comparators == {"eq", "ge", "le"}
ReferenceValues == DateOptions \cup NumberOptions \cup BoolOptions

\* approaches as loading and linking leave them: linked or not, velocity
\* known or None
StoredApproaches ==
    {[LinkedApproach(Str(CdString(1, "00:00")), Str("1"), vl) EXCEPT !.neo = id] :
        vl \in {Str("1"), NoneV}, id \in {0, 1}}

InitPlain ==
    /\ IdleModels /\ IdleLimit /\ IdleDb
    /\ f_opts \in FewOptions
    /\ f_filters = << >>
    /\ f_approach \in StoredApproaches
    /\ f_neos = <<LoadedNeo(Str(""), Str("N"))>>
    /\ f_verdict = Ok(NoneV) /\ f_pc = "options" /\ f_plain = NoneV

\* AttributeFilter(op, value)(approach)
CallAttributeFilter ==
    /\ f_pc = "created"
    /\ \E op \in Comparators, value \in ReferenceValues :
          /\ f_plain' = AttributeFilter(op, value)
          /\ f_verdict' = Call(f_plain', f_approach, f_neos)
    /\ f_pc' = "called"
    /\ UNCHANGED <<f_opts, f_filters, f_approach, f_neos, modelVars, limitVars,
                   dbVars>>

NextPlain == CreateFilters \/ CallAttributeFilter
SpecPlain == InitPlain /\ [][NextPlain]_vars

\* C11: calling a plain AttributeFilter on any approach raises the
\* unsupported-criterion error, whatever its comparator and reference value,
\* and never returns a truth value; create_filters returns no such filter.
C11_PlainFilterAlwaysRaises ==
    /\ f_pc = "called" => /\ f_plain.cls = "AttributeFilter"
                          /\ f_verdict = Raise("UnsupportedCriterionError")
    /\ f_pc \in {"created", "called"} =>
          \A i \in 1..Len(f_filters) :
              f_filters[i].cls \in {"DateFilter", "ApproachFilter", "NeoFilter"}

C11_Witness ==
    /\ f_pc = "called" /\ f_plain = AttributeFilter("eq", NoneV)
    /\ f_approach.neo = 0 /\ f_approach.velocity = NoneV
    /\ Len(f_filters) = 2 /\ f_verdict.exc = "UnsupportedCriterionError"

(***************************************************************************)
(* filters.py: limit.  The iterator handed to limit produces the elements  *)
(* of l_src one at a time; l_pulled of them have been pulled from it.      *)
(* l_ret is what limit returned: the iterator itself or an islice over it. *)
(***************************************************************************)
\* if n == 0 or n is None:
\* (mutant: "if n is None:")
IsUnlimitedNoneOnly(n) == n = NoneV
IsUnlimited(n) == n = NoneV \/ (IsNumber(n) /\ n.n = 0)

\* itertools.islice(iterator, n): a negative stop is a ValueError
\* (mutant: islice(iterator, n - 1))
isliceShort(n) ==
    IF n.k = "int" /\ n.n >= 0
    THEN [exc |-> "", kind |-> "islice", stop |-> n.n - 1]
    ELSE [exc |-> "ValueError", kind |-> "", stop |-> 0]
islice(n) ==
    IF n.k = "int" /\ n.n >= 0
    THEN [exc |-> "", kind |-> "islice", stop |-> n.n]
    ELSE [exc |-> "ValueError", kind |-> "", stop |-> 0]

limit(n) ==
    IF IsUnlimited(n)
    THEN [exc |-> "", kind |-> "iterator", stop |-> 0]
    ELSE islice(n)

\* islice.__next__ stops, without asking upstream, once cnt has reached stop
\* (mutant: cnt > stop)
StopReachedLate(cnt, stop) == cnt > stop
StopReached(cnt, stop) == cnt >= stop

Elements == {"a", "b"}
Sources == UNION {[1..len -> Elements] : len \in 0..MaxLen}
Limits == {NoneV} \cup {PyInt(i) : i \in (0 - 1)..(MaxLen + 1)}
MaxCalls == MaxLen + 2

InitLimit ==
    /\ IdleModels /\ IdleFilters /\ IdleDb
    /\ l_src \in Sources /\ l_n \in Limits
    /\ l_ret = [exc |-> "", kind |-> "", stop |-> 0]
    /\ l_cnt = 0 /\ l_pulled = 0 /\ l_held = "" /\ l_out = << >> /\ l_calls = 0
    /\ l_pc = "call"

\* results = limit(iterator, n)
Limit ==
    /\ l_pc = "call"
    /\ l_ret' = limit(l_n)
    /\ l_pc' = IF l_ret'.exc = "" THEN "ready" ELSE "raised"
    /\ UNCHANGED <<l_src, l_n, l_cnt, l_pulled, l_held, l_out, l_calls,
                   modelVars, filterVars, dbVars>>

\* next(results) when limit returned the iterator itself: the consumer pulls
\* from the source directly
NextOfIterator ==
    /\ l_pc \in {"ready", "stopped"} /\ l_ret.kind = "iterator"
    /\ l_calls < MaxCalls
    /\ l_calls' = l_calls + 1
    /\ IF l_pulled < Len(l_src)
       THEN /\ l_pulled' = l_pulled + 1
            /\ l_out' = Append(l_out, l_src[l_pulled + 1])
            /\ l_pc' = "ready"
       ELSE /\ l_pc' = "stopped"
            /\ UNCHANGED <<l_pulled, l_out>>
    /\ UNCHANGED <<l_src, l_n, l_ret, l_cnt, l_held, modelVars, filterVars, dbVars>>

\* next(results) of an islice, first half: stop if cnt has reached stop,
\* otherwise pull one element from the source
IsliceNext ==
    /\ l_pc \in {"ready", "stopped"} /\ l_ret.kind = "islice"
    /\ l_calls < MaxCalls
    /\ l_calls' = l_calls + 1
    /\ IF l_pc = "stopped" \/ StopReached(l_cnt, l_ret.stop)
       THEN /\ l_pc' = "stopped"
            /\ UNCHANGED <<l_pulled, l_held>>
       ELSE IF l_pulled < Len(l_src)
       THEN /\ l_pulled' = l_pulled + 1
            /\ l_held' = l_src[l_pulled + 1]
            /\ l_pc' = "yielding"
       ELSE /\ l_pc' = "stopped"
            /\ UNCHANGED <<l_pulled, l_held>>
    /\ UNCHANGED <<l_src, l_n, l_ret, l_cnt, l_out, modelVars, filterVars, dbVars>>

\* second half: count the element and hand it to the consumer
IsliceYield ==
    /\ l_pc = "yielding"
    /\ l_cnt' = l_cnt + 1
    /\ l_out' = Append(l_out, l_held)
    /\ l_held' = ""
    /\ l_pc' = "ready"
    /\ UNCHANGED <<l_src, l_n, l_ret, l_pulled, l_calls, modelVars, filterVars, dbVars>>

NextLimit == Limit \/ NextOfIterator \/ IsliceNext \/ IsliceYield
SpecLimit == InitLimit /\ [][NextLimit]_vars

Min(a, b) == IF a <= b THEN a ELSE b
Prefix(seq, len) == SubSeq(seq, 1, len)

\* C4 as claimed: for every n that is neither 0 nor None, limit raises no error
\* and yields exactly the first min(n, available) elements, in order.
C4_AnyLimitYieldsMin ==
    (l_pc # "call" /\ ~IsUnlimited(l_n)) =>
        /\ l_pc # "raised"
        /\ l_out = Prefix(l_src, Len(l_out))
        /\ Len(l_out) <= Min(l_n.n, Len(l_src))
        /\ l_pc = "stopped" => Len(l_out) = Min(l_n.n, Len(l_src))

\* C4 (amended): for every n >= 1, limit raises no error and yields exactly
\* the first min(n, available) elements of the source, in order.
C4_PositiveLimitYieldsMin ==
    (l_pc # "call" /\ l_n.k = "int" /\ l_n.n >= 1) =>
        /\ l_pc # "raised"
        /\ l_out = Prefix(l_src, Len(l_out))
        /\ Len(l_out) <= Min(l_n.n, Len(l_src))
        /\ l_pc = "stopped" => Len(l_out) = Min(l_n.n, Len(l_src))

C4_Witness ==
    /\ l_pc = "stopped" /\ l_n = PyInt(2) /\ Len(l_src) = 3
    /\ l_out = <<l_src[1], l_src[2]>>

\* C5: while an islice with n >= 1 is consumed, at most n elements have been
\* pulled from the source and at most one more than have been handed to the
\* consumer; once n have been yielded nothing more is pulled, however often
\* the consumer asks again.
C5_NoOverConsumption ==
    (l_ret.kind = "islice" /\ l_n.n >= 1) =>
        /\ l_pulled <= l_n.n
        /\ l_pulled <= Len(l_out) + 1
        /\ Len(l_out) = l_n.n => l_pulled = l_n.n

C5_Witness ==
    /\ l_ret.kind = "islice" /\ l_n = PyInt(1) /\ Len(l_src) = 3
    /\ l_pc = "stopped" /\ l_calls >= 3 /\ l_pulled = 1 /\ Len(l_out) = 1

\* C6: limit(sequence, 0) and limit(sequence, None) return the sequence
\* itself: the call pulls nothing, every element reaches the consumer in
\* order, and each is pulled only when the consumer asks for it.
C6_ZeroAndNoneAreNoOps ==
    (l_pc # "call" /\ (l_n = NoneV \/ l_n = PyInt(0))) =>
        /\ l_ret.exc = "" /\ l_ret.kind = "iterator"
        /\ l_calls = 0 => l_pulled = 0
        /\ l_pulled = Len(l_out) /\ l_pulled <= l_calls
        /\ l_out = Prefix(l_src, Len(l_out))
        /\ l_pc = "stopped" => l_out = l_src

C6_Witness ==
    /\ l_n = PyInt(0) /\ l_pc = "stopped" /\ Len(l_src) = 3 /\ l_out = l_src


(***************************************************************************)
(* extract.py: the loaders.  A NEO row is the four CSV columns the loader  *)
(* reads, an approach row the four JSON fields.  A Python dict is a        *)
(* function from its (text) keys; an object's identity is its index in     *)
(* the sequence of the objects constructed.                                *)
(***************************************************************************)
\* neos_dict[line[3]] = ...: the key of a row
\* (mutant: neos_dict[line[4]], the name column)
NeoKeyByName(row) == row.name.s
NeoKey(row) == row.pdes.s

NeoOfRow(row) ==
    NearEarthObject([designation |-> row.pdes, name |-> row.name,
                     diameter |-> row.diameter, hazardous |-> row.pha])
ApproachOfRow(row) ==
    CloseApproach([designation |-> row.des, distance |-> row.dist,
                   velocity |-> row.v_rel, time |-> row.cd])

\* the NEO objects load_neos constructs, one per row
load_neos_objects(rows) == [i \in 1..Len(rows) |-> NeoOfRow(rows[i]).val]
\* the dictionary load_neos returns: a later row replaces an earlier one of
\* the same key
load_neos(rows) ==
    [key \in {NeoKey(rows[i]) : i \in 1..Len(rows)} |->
        CHOOSE i \in 1..Len(rows) :
            /\ NeoKey(rows[i]) = key
            /\ \A j \in (i + 1)..Len(rows) : NeoKey(rows[j]) # key]

\* the list load_approaches returns, or the exception of the first
\* constructor that raises
load_approaches(rows) ==
    [exc |-> FirstRaised([i \in 1..Len(rows) |-> ApproachOfRow(rows[i])]),
     val |-> [i \in 1..Len(rows) |-> ApproachOfRow(rows[i]).val]]

(***************************************************************************)
(* database.py: NEODatabase.  The constructor indexes the NEOs by          *)
(* designation and links every approach whose designation is indexed.      *)
(***************************************************************************)
Range(f) == {f[x] : x \in DOMAIN f}

\* designation -> NEO, over the NEOs handed to the constructor; of two NEOs
\* of one designation the later one stays
DesignationIndex(neos, handed) ==
    [des \in {neos[id].designation.s : id \in handed} |->
        CHOOSE id \in handed :
            /\ neos[id].designation.s = des
            /\ \A other \in handed :
                  neos[other].designation.s = des => other <= id]

\* the linking pass from approach i on: [neos, approaches] after it
RECURSIVE LinkFrom(_, _, _, _)
LinkFrom(neos, approaches, index, i) ==
    IF i > Len(approaches) THEN [neos |-> neos, approaches |-> approaches]
    ELSE LET des == approaches[i]._designation
         IN IF des.k = "str" /\ des.s \in DOMAIN index
            THEN LET id == index[des.s]
                 IN LinkFrom(
                        [neos EXCEPT ![id].approaches = Append(@, i)],
                        [approaches EXCEPT ![i].neo = id],
                        index, i + 1)
            ELSE LinkFrom(neos, approaches, index, i + 1)

\* get_neo_by_designation: the NEO's identity, 0 for None
get_neo_by_designation(index, key) ==
    IF key.k = "str" /\ key.s \in DOMAIN index THEN index[key.s] ELSE 0

(***************************************************************************)
(* The data sets.                                                          *)
(***************************************************************************)
SeqsUpTo(S, len) == UNION {[1..k -> S] : k \in 0..len}

\* linking and lookup: designations and names vary
LinkNeoRows ==
    [pdes : {Str("433"), Str("887")}, name : {Str(""), Str("Eros")},
     diameter : {Str("")}, pha : {Str("N")}]
LinkCadRows ==
    [des : {Str("433"), Str("887"), Str("2020 BS")},
     cd : {Str(CdString(1, "00:00"))}, dist : {Str("1")}, v_rel : {Str("1")}]

\* querying: two NEOs, approaches of either or of neither, velocity known or null
QueryNeoRows ==
    <<[pdes |-> Str("433"), name |-> Str("Eros"), diameter |-> Str("1"),
       pha |-> Str("Y")],
      [pdes |-> Str("2020 BS"), name |-> Str(""), diameter |-> Str(""),
       pha |-> Str("N")]>>
QueryCadRows ==
    [des : {Str("433"), Str("2020 BS"), Str("887")},
     cd : {Str(CdString(1, "23:59"))}, dist : {Str("1")},
     v_rel : {Str("1"), NoneV}]

LookupKeys ==
    {Str("433"), Str("887"), Str("2020 BS"), Str("43"), Str("Eros"), PyInt(887)}

InitData ==
    /\ IdleModels /\ IdleFilters /\ IdleLimit
    /\ d_neos = << >> /\ d_neos_dict = << >> /\ d_approaches = << >>
    /\ d_index = << >> /\ d_pc = "load_neos"
    /\ d_key = NoneV /\ d_found = 0
    /\ q_filters = << >> /\ q_pos = 0 /\ q_out = << >> /\ q_state = "idle"
    /\ p_filters = << >> /\ p_out = << >> /\ p_state = "idle"

InitLink ==
    /\ InitData
    /\ d_neo_rows \in SeqsUpTo(LinkNeoRows, MaxNeos)
    /\ d_cad_rows \in SeqsUpTo(LinkCadRows, MaxApproaches)

Init ==
    /\ InitData
    /\ d_neo_rows = QueryNeoRows
    /\ d_cad_rows \in SeqsUpTo(QueryCadRows, MaxApproaches)

\* neos = load_neos(path)
LoadNeos ==
    /\ d_pc = "load_neos"
    /\ d_neos' = load_neos_objects(d_neo_rows)
    /\ d_neos_dict' = load_neos(d_neo_rows)
    /\ d_pc' = "load_approaches"
    /\ UNCHANGED <<d_neo_rows, d_cad_rows, d_approaches, d_index, lookupVars,
                   queryVars, earlierVars, modelVars, filterVars, limitVars>>

\* approaches = load_approaches(path)
LoadApproaches ==
    /\ d_pc = "load_approaches"
    /\ LET r == load_approaches(d_cad_rows)
       IN IF r.exc = ""
          THEN d_approaches' = r.val /\ d_pc' = "loaded"
          ELSE d_approaches' = << >> /\ d_pc' = "raised"
    /\ UNCHANGED <<d_neo_rows, d_cad_rows, d_neos, d_neos_dict, d_index,
                   lookupVars, queryVars, earlierVars, modelVars, filterVars,
                   limitVars>>

\* NEODatabase(neos, approaches)
NewNEODatabase ==
    /\ d_pc = "loaded"
    /\ d_index' = DesignationIndex(d_neos, Range(d_neos_dict))
    /\ LET linked == LinkFrom(d_neos, d_approaches, d_index', 1)
       IN d_neos' = linked.neos /\ d_approaches' = linked.approaches
    /\ d_pc' = "ready"
    /\ UNCHANGED <<d_neo_rows, d_cad_rows, d_neos_dict, lookupVars, queryVars,
                   earlierVars,
                   modelVars, filterVars, limitVars>>

\* db.get_neo_by_designation(key)
GetNeoByDesignation ==
    /\ d_pc \in {"ready", "looked"}
    /\ \E key \in LookupKeys :
          /\ d_key' = key
          /\ d_found' = get_neo_by_designation(d_index, key)
    /\ d_pc' = "looked"
    /\ UNCHANGED <<d_neo_rows, d_cad_rows, d_neos, d_neos_dict, d_approaches,
                   d_index, queryVars, earlierVars, modelVars, filterVars,
                   limitVars>>

\* db.query(create_filters(...)): the generator is created, nothing runs yet
Query ==
    /\ d_pc = "ready" /\ q_state = "idle"
    /\ \E opts \in FewOptions : q_filters' = create_filters(opts)
    /\ q_pos' = 0 /\ q_out' = << >> /\ q_state' = "running"
    /\ UNCHANGED <<dataVars, lookupVars, earlierVars, modelVars, filterVars,
                   limitVars>>

\* one turn of the generator's loop: the next approach is tested against the
\* filters and yielded if all accept it; an exception of a filter ends the
\* generator
QueryNext ==
    /\ q_state = "running"
    /\ IF q_pos = Len(d_approaches)
       THEN q_state' = "done" /\ UNCHANGED <<q_pos, q_out>>
       ELSE LET r == Matches(q_filters, d_approaches[q_pos + 1], d_neos)
            IN /\ q_pos' = q_pos + 1
               /\ q_state' = IF r.exc = "" THEN "running" ELSE "raised"
               /\ q_out' = IF r = Ok(Bool(TRUE))
                           THEN Append(q_out, q_pos + 1) ELSE q_out
    /\ UNCHANGED <<q_filters, dataVars, lookupVars, earlierVars, modelVars,
                   filterVars, limitVars>>

\* the filters of a sequence taken in the order perm
Reordered(filters, perm) == [i \in 1..Len(filters) |-> filters[perm[i]]]

\* db.query(filters) again with the same filters in another order, once the
\* first generator has ended; the first outcome is kept for comparison
QueryReordered ==
    /\ d_pc = "ready" /\ q_state \in {"done", "raised"} /\ p_state = "idle"
    /\ p_filters' = q_filters /\ p_out' = q_out /\ p_state' = q_state
    /\ \E perm \in Permutations(1..Len(q_filters)) :
          q_filters' = Reordered(q_filters, perm)
    /\ q_pos' = 0 /\ q_out' = << >> /\ q_state' = "running"
    /\ UNCHANGED <<dataVars, lookupVars, modelVars, filterVars, limitVars>>

NextLink == LoadNeos \/ LoadApproaches \/ NewNEODatabase \/ GetNeoByDesignation
SpecLink == InitLink /\ [][NextLink]_vars

Next ==
    \/ LoadNeos \/ LoadApproaches \/ NewNEODatabase \/ Query \/ QueryNext
    \/ QueryReordered
Spec == Init /\ [][Next]_vars


\* the NEOs handed to the database, and the number of times c is in a list
Handed == Range(d_neos_dict)
Occurrences(seq, c) == Cardinality({k \in 1..Len(seq) : seq[k] = c})
Constructed == d_pc \in {"ready", "looked"}

\* C7: after construction every approach whose designation is that of an
\* indexed NEO N has neo = N, is in N.approaches exactly once and in no other
\* NEO's list; every list is empty before linking and afterwards holds only
\* approaches of the NEO's own designation.
C7_LinkingIsBidirectional ==
    /\ d_pc \in {"load_approaches", "loaded"} =>
          \A id \in 1..Len(d_neos) : d_neos[id].approaches = << >>
    /\ Constructed =>
          /\ \A c \in 1..Len(d_approaches) : \A id \in Handed :
                d_approaches[c]._designation = d_neos[id].designation =>
                    /\ d_approaches[c].neo = id
                    /\ Occurrences(d_neos[id].approaches, c) = 1
                    /\ \A other \in 1..Len(d_neos) :
                          other # id => Occurrences(d_neos[other].approaches, c) = 0
          /\ \A id \in 1..Len(d_neos) :
                \A k \in 1..Len(d_neos[id].approaches) :
                    LET c == d_neos[id].approaches[k]
                    IN /\ c \in 1..Len(d_approaches)
                       /\ d_approaches[c]._designation = d_neos[id].designation

C7_Witness ==
    /\ d_pc = "ready" /\ Len(d_neos) = 2
    /\ d_neos[1].approaches = <<2>> /\ d_neos[2].approaches = <<1>>
    /\ d_approaches[1].neo = 2 /\ d_approaches[2].neo = 1

\* C9: get_neo_by_designation(N.designation) is N for every NEO N handed to
\* the database, by exact match of the text; a key that is the designation of
\* no indexed NEO gives None.
C9_LookupByDesignation ==
    d_pc = "looked" =>
        /\ \A id \in Handed : d_key = d_neos[id].designation => d_found = id
        /\ (\A id \in Handed : d_key # d_neos[id].designation) => d_found = 0

C9_Witness ==
    /\ d_pc = "looked" /\ Len(d_neo_rows) = 2
    /\ d_key = Str("887") /\ d_found = 2 /\ d_neos[1].designation = Str("433")

\* the approaches, in stored order, that every filter of the query accepts
Accepts(f, c) ==
    Call(f, d_approaches[c], d_neos) = Ok(Bool(TRUE))
RECURSIVE AcceptedFrom(_)
AcceptedFrom(c) ==
    IF c > Len(d_approaches) THEN << >>
    ELSE (IF \A j \in 1..Len(q_filters) : Accepts(q_filters[j], c)
          THEN <<c>> ELSE << >>) \o AcceptedFrom(c + 1)
QueryEnded == q_state \in {"done", "raised"}

\* C1: query(filters) yields, in stored order and each once, exactly the
\* stored approaches that satisfy every filter; all of them when there is no
\* filter.
C1_QueryYieldsTheMatching ==
    QueryEnded =>
        /\ q_state = "done"
        /\ q_out = AcceptedFrom(1)
        /\ q_filters = << >> => q_out = [c \in 1..Len(d_approaches) |-> c]

\* the filter whose exception ended the query is one that dereferences the NEO
Dereferences(f) == f.cls = "NeoFilter"
RaisedOnNeo ==
    /\ q_state = "raised"
    /\ \E j \in 1..Len(q_filters) :
          /\ Dereferences(q_filters[j])
          /\ Call(q_filters[j], d_approaches[q_pos], d_neos).exc # ""
          /\ \A k \in 1..(j - 1) : Accepts(q_filters[k], q_pos)

\* C8: an approach whose designation resolves to no NEO is kept unlinked and
\* construction goes through; query([]) yields it at its position; a query
\* with a filter on the NEO's diameter or hazard flag leaves it out without
\* raising.
C8_UnlinkedKeptAndExcluded ==
    /\ d_pc = "loaded" => ENABLED NewNEODatabase
    /\ Constructed => Len(d_approaches) = Len(d_cad_rows)
    /\ (QueryEnded /\ q_filters = << >>) =>
          q_out = [c \in 1..Len(d_approaches) |-> c]
    /\ \A c \in 1..q_pos :
          (d_approaches[c].neo = 0 /\ \E j \in 1..Len(q_filters) :
                                          Dereferences(q_filters[j]))
             => /\ \A k \in 1..Len(q_out) : q_out[k] # c
                /\ ~(q_pos = c /\ RaisedOnNeo)

\* C12: two queries of the same database with the same filters in two orders
\* have the same outcome: both complete or both fail, with the same results.
C12_FilterOrderIsImmaterial ==
    (p_state # "idle" /\ QueryEnded) => (q_state = p_state /\ q_out = p_out)

\* two completed queries with the same filters yield the same results
C12_CompletedQueriesAgree ==
    (p_state = "done" /\ q_state = "done") => q_out = p_out


(***************************************************************************)
(* Construction of one record from one keyword dictionary.                 *)
(***************************************************************************)

NeoFields ==
    [designation |-> {Str("433")},
     name |-> {NoneV, Str(""), Str("Eros")},
     diameter |-> BadTexts \cup NumberTexts,
     hazardous |-> {NoneV, Str(""), Str("Y"), Str("N")}]
ApproachFields ==
    [designation |-> {Str("433")},
     time |-> BadTexts \cup CdTexts,
     distance |-> BadTexts \cup NumberTexts,
     velocity |-> BadTexts \cup NumberTexts]

\* every keyword dictionary that gives some of the fields a value of its set
Kwargs(fields) ==
    UNION {{f \in [S -> UNION {fields[k] : k \in S}] :
                \A k \in S : f[k] \in fields[k]} : S \in SUBSET DOMAIN fields}

InitModels ==
    /\ IdleFilters /\ IdleLimit /\ IdleDb
    /\ m_cls \in {"NearEarthObject", "CloseApproach"}
    /\ m_info \in IF m_cls = "NearEarthObject"
                  THEN Kwargs(NeoFields) ELSE Kwargs(ApproachFields)
    /\ m_result = Ok(NoneV)
    /\ m_pc = "call"

NewNearEarthObject ==
    /\ m_pc = "call" /\ m_cls = "NearEarthObject"
    /\ m_result' = NearEarthObject(m_info)
    /\ m_pc' = IF m_result'.exc = "" THEN "constructed" ELSE "raised"
    /\ UNCHANGED <<m_cls, m_info, filterVars, limitVars, dbVars>>

NewCloseApproach ==
    /\ m_pc = "call" /\ m_cls = "CloseApproach"
    /\ m_result' = CloseApproach(m_info)
    /\ m_pc' = IF m_result'.exc = "" THEN "constructed" ELSE "raised"
    /\ UNCHANGED <<m_cls, m_info, filterVars, limitVars, dbVars>>

NextModels == NewNearEarthObject \/ NewCloseApproach

SpecModels == InitModels /\ [][NextModels]_vars

\* info[key] is missing, or is not the text of a number
Unparseable(key) ==
    key \notin DOMAIN m_info \/ m_info[key] \notin NumberTexts \cup {Str("nan")}

\* C10: constructing a NearEarthObject or a CloseApproach never raises for a
\* missing, null or unparseable optional field; the record is constructed with
\* the documented default in its place (name -> None, diameter -> nan,
\* time, distance, velocity -> None).
C10_ConstructionNeverRaises ==
    m_pc # "call" =>
        /\ m_pc = "constructed"
        /\ m_cls = "NearEarthObject" =>
              /\ ("name" \notin DOMAIN m_info \/ m_info["name"] \in {NoneV, Str("")})
                    => m_result.val.name = NoneV
              /\ Unparseable("diameter") => IsNaN(m_result.val.diameter)
        /\ m_cls = "CloseApproach" =>
              /\ ("time" \notin DOMAIN m_info \/ m_info["time"] \notin CdTexts)
                    => m_result.val.time = NoneV
              /\ Unparseable("distance") => m_result.val.distance = NoneV
              /\ Unparseable("velocity") => m_result.val.velocity = NoneV

====
